---- MODULE Spec2Model ----
(***************************************************************************)
(* RTIC application analysis (src/analyze.rs, fn app).                     *)
(*                                                                         *)
(* app() is a single linear pass.  It is modelled as a state machine whose *)
(* program counter walks through the phases of the function: the lock-free *)
(* validator, the local-resource validator, the error collection, the      *)
(* ownership fold (one step per access triple), the local-resource         *)
(* locations, the Send types, the channels and their capacities.           *)
(* The application model (app) and the shared-resource access enumeration  *)
(* (accesses) are the inputs; they are drawn in Init and never change.     *)
(***************************************************************************)
EXTENDS Integers, Sequences, FiniteSets

VARIABLES
    app,                        \* the application model (&App)
    accesses,                   \* what app.shared_resource_accesses() yields
    pc,                         \* position inside app()
    idx,                        \* position of the ownership loop in accesses
    lf_hash,                    \* resource name -> last seen lock-free use
    lf_res_with_error,          \* flagged uses of lock-free resources
    lr_hash,                    \* resource name -> last seen local use
    lr_with_error,              \* flagged uses of local resources
    error,                      \* the diagnostics collected so far
    shared_resource_locations,  \* IndexMap<Resource, Location>
    ownerships,                 \* IndexMap<Resource, Ownership>
    sync_types,                 \* Set<Type>
    local_resource_locations,   \* IndexMap<Resource, Location>
    send_types,                 \* Set<Type>
    channels,                   \* BTreeMap<Priority, Channel>
    result                      \* what app() returned, once pc = "done"

vars == <<app, accesses, pc, idx, lf_hash, lf_res_with_error, lr_hash,
          lr_with_error, error, shared_resource_locations, ownerships,
          sync_types, local_resource_locations, send_types, channels, result>>

-----------------------------------------------------------------------------
(* Bounds of the model *)

\* task priorities range over 1..MaxPrio (0 is the idle task's)
MaxPrio == 2

\* longest access enumeration drawn as a free input
MaxAccesses == 3

\* capacity: u8
U8Modulus == 256

-----------------------------------------------------------------------------
(* Generic helpers *)

EmptyMap == [x \in {} |-> x]

\* map.insert(k, v)
MapInsert(m, k, v) == [x \in DOMAIN m \cup {k} |-> IF x = k THEN v ELSE m[x]]

Range(s) == {s[i] : i \in DOMAIN s}

Max(a, b) == IF a >= b THEN a ELSE b

\* the elements of the ordered list `order` that are in S, in that order
Pick(order, S) == SelectSeq(order, LAMBDA x : x \in S)

RECURSIVE Concat(_)
Concat(ss) == IF ss = <<>> THEN <<>> ELSE Head(ss) \o Concat(Tail(ss))

\* Option<u8>
None == <<>>
Some(p) == <<p>>

-----------------------------------------------------------------------------
(* The task list (lines 17-75) *)

\* the names an argument list refers to: .iter().map(|(v, _)| v)
RefNames(refs) == [i \in DOMAIN refs |-> refs[i].name]

\* Vec<(TaskName, shared resources, local resources, Priority)>:
\* idle (priority 0), then the software tasks, then the hardware tasks
task_resources_list(a) ==
    [i \in DOMAIN a.idle |->
        [name |-> "idle", shared |-> RefNames(a.idle[i].shared_resources),
         local |-> RefNames(a.idle[i].local_resources), priority |-> 0]]
    \o
    [i \in DOMAIN a.software_tasks |->
        [name |-> a.software_tasks[i].name,
         shared |-> RefNames(a.software_tasks[i].shared_resources),
         local |-> RefNames(a.software_tasks[i].local_resources),
         priority |-> a.software_tasks[i].priority]]
    \o
    [i \in DOMAIN a.hardware_tasks |->
        [name |-> a.hardware_tasks[i].name,
         shared |-> RefNames(a.hardware_tasks[i].shared_resources),
         local |-> RefNames(a.hardware_tasks[i].local_resources),
         priority |-> a.hardware_tasks[i].priority]]

\* the list of task idents
tasks(a) == [i \in DOMAIN task_resources_list(a) |-> task_resources_list(a)[i].name]

-----------------------------------------------------------------------------
(* The lock-free validator (lines 77-136) *)

\* the shared resources declared lock_free, in declaration order
lock_free(a) ==
    RefNames(SelectSeq(a.shared_resources, LAMBDA r : r.lock_free))

\* the uses the three nested loops reach with lf_res == r, in loop order:
\* for lf_res in lock_free, for task in task_resources_list, for r in tr.
\* A use is the reference r inside one task; priority is the task's.
LfUsesIn(lf_res, t) ==
    [k \in DOMAIN SelectSeq(t.shared, LAMBDA r : r = lf_res) |->
        [task |-> t.name, res |-> lf_res, priority |-> t.priority]]

LfUses(a) ==
    Concat([i \in DOMAIN lock_free(a) |->
        Concat([j \in DOMAIN task_resources_list(a) |->
            LfUsesIn(lock_free(a)[i], task_resources_list(a)[j])])])

\* the reference (&Ident) a use stands for
Site(u) == [task |-> u.task, res |-> u.res]

\* lf_res_with_error.contains(&r): Ident equality is equality of names
Contains(errs, r) == \E i \in DOMAIN errs : errs[i].res = r

\* LfStep with the priorities compared by > instead of !=
LfStep_OnlyRising(st, u) ==
    LET hash2 == MapInsert(st.hash, u.res, u)
    IN  IF u.res \notin DOMAIN st.hash
        THEN [hash |-> hash2, errs |-> st.errs]
        ELSE LET old == st.hash[u.res]
                 e1  == IF u.priority > old.priority
                        THEN st.errs \o <<Site(old), Site(u)>>
                        ELSE st.errs
                 e2  == IF Contains(e1, u.res)
                        THEN e1 \o <<Site(old), Site(u)>>
                        ELSE e1
             IN  [hash |-> hash2, errs |-> e2]

\* the body of the innermost loop for one use u (lines 96-108)
LfStep(st, u) ==
    LET hash2 == MapInsert(st.hash, u.res, u)
    IN  IF u.res \notin DOMAIN st.hash
        THEN [hash |-> hash2, errs |-> st.errs]
        ELSE LET old == st.hash[u.res]
                 e1  == IF u.priority # old.priority
                        THEN st.errs \o <<Site(old), Site(u)>>
                        ELSE st.errs
                 e2  == IF Contains(e1, u.res)
                        THEN e1 \o <<Site(old), Site(u)>>
                        ELSE e1
             IN  [hash |-> hash2, errs |-> e2]

RECURSIVE LfFold(_, _)
LfFold(st, us) ==
    IF us = <<>> THEN st ELSE LfFold(LfStep(st, Head(us)), Tail(us))

SummaryMsg == "Lock free shared resource is used by tasks at different priorities"
UseMsg == "Shared resource is declared lock free but used by tasks at different priorities"
LocalMsg == "Local resource is used by or collides with multiple tasks"

\* one error per lock_free resource found in lf_res_with_error (lines 114-125)
LfSummaries(a, errs) ==
    LET bad == SelectSeq(lock_free(a), LAMBDA r : Contains(errs, r))
    IN  [i \in DOMAIN bad |-> [span |-> <<"decl", bad[i]>>, msg |-> SummaryMsg]]

\* one error per element of lf_res_with_error (lines 127-136)
LfUseErrors(errs) ==
    [i \in DOMAIN errs |->
        [span |-> <<"use", errs[i].task, errs[i].res>>, msg |-> UseMsg]]

-----------------------------------------------------------------------------
(* The local-resource validator (lines 138-169) *)

local(a) == RefNames(a.local_resources)

LrUsesIn(lr, t) ==
    [k \in DOMAIN SelectSeq(t.local, LAMBDA r : r = lr) |->
        [task |-> t.name, res |-> lr]]

LrUses(a) ==
    Concat([i \in DOMAIN local(a) |->
        Concat([j \in DOMAIN task_resources_list(a) |->
            LrUsesIn(local(a)[i], task_resources_list(a)[j])])])

\* LrStep that takes a second use for a collision only within one task
LrStep_SameTaskOnly(st, u) ==
    [hash |-> MapInsert(st.hash, u.res, u),
     errs |-> IF u.res \in DOMAIN st.hash /\ st.hash[u.res].task = u.task
              THEN st.errs \o <<st.hash[u.res], u>>
              ELSE st.errs]

\* lines 151-154
LrStep(st, u) ==
    [hash |-> MapInsert(st.hash, u.res, u),
     errs |-> IF u.res \in DOMAIN st.hash
              THEN st.errs \o <<st.hash[u.res], u>>
              ELSE st.errs]

RECURSIVE LrFold(_, _)
LrFold(st, us) ==
    IF us = <<>> THEN st ELSE LrFold(LrStep(st, Head(us)), Tail(us))

LrUseErrors(errs) ==
    [i \in DOMAIN errs |->
        [span |-> <<"use", errs[i].task, errs[i].res>>, msg |-> LocalMsg]]

\* err = first error; then every error, the first included, is combined
\* into it (lines 173-175)
CombinedError(es) == <<Head(es)>> \o es

-----------------------------------------------------------------------------
(* Ownership (lines 178-217, 364-404) *)

Owned(p) == [kind |-> "Owned", prio |-> p]
CoOwned(p) == [kind |-> "CoOwned", prio |-> p]
Contended(c) == [kind |-> "Contended", prio |-> c]

\* Access::is_shared
is_shared(access) == access = "Shared"

\* app.shared_resources.get(name)
SharedRes(a, name) ==
    LET hit == SelectSeq(a.shared_resources, LAMBDA r : r.name = name)
    IN  hit[1]

\* OwnershipMatch without the arm that turns Owned into CoOwned
OwnershipMatch_NoCoOwned(o, priority) ==
    IF priority # o.prio
    THEN Contended(Max(o.prio, priority))
    ELSE o

\* OwnershipMatch that takes the new priority for the ceiling
OwnershipMatch_LastPriority(o, priority) ==
    IF priority # o.prio
    THEN Contended(priority)
    ELSE IF o.kind = "Owned" THEN CoOwned(priority) ELSE o

\* the match on *ownership (lines 192-212); priority is the access's
OwnershipMatch(o, priority) ==
    IF priority # o.prio
    THEN Contended(Max(o.prio, priority))
    ELSE IF o.kind = "Owned" THEN CoOwned(priority) ELSE o

\* OwnStep that records the location inside `if let Some(priority)`
OwnStep_LocationIfPrioritized(a, st, acc) ==
    LET loc2 == MapInsert(st.loc, acc.name, "Owned")
    IN  IF acc.prio = None
        THEN [loc |-> st.loc, own |-> st.own, sync |-> st.sync]
        ELSE LET priority == acc.prio[1]
             IN  IF acc.name \in DOMAIN st.own
                 THEN [loc |-> loc2,
                       own |-> MapInsert(st.own, acc.name,
                                   OwnershipMatch(st.own[acc.name], priority)),
                       sync |-> IF priority # st.own[acc.name].prio
                                   /\ is_shared(acc.access)
                                THEN st.sync \cup {SharedRes(a, acc.name).ty}
                                ELSE st.sync]
                 ELSE [loc |-> loc2,
                       own |-> MapInsert(st.own, acc.name, Owned(priority)),
                       sync |-> st.sync]

\* the body of the loop over the accesses (lines 183-216);
\* acc = [prio, name, access], st = [loc, own, sync]
OwnStep(a, st, acc) ==
    LET loc2 == MapInsert(st.loc, acc.name, "Owned")
    IN  IF acc.prio = None
        THEN [loc |-> loc2, own |-> st.own, sync |-> st.sync]
        ELSE LET priority == acc.prio[1]
             IN  IF acc.name \in DOMAIN st.own
                 THEN [loc |-> loc2,
                       own |-> MapInsert(st.own, acc.name,
                                   OwnershipMatch(st.own[acc.name], priority)),
                       sync |-> IF priority # st.own[acc.name].prio
                                   /\ is_shared(acc.access)
                                THEN st.sync \cup {SharedRes(a, acc.name).ty}
                                ELSE st.sync]
                 ELSE [loc |-> loc2,
                       own |-> MapInsert(st.own, acc.name, Owned(priority)),
                       sync |-> st.sync]

RECURSIVE OwnFold(_, _, _)
OwnFold(a, st, accs) ==
    IF accs = <<>> THEN st ELSE OwnFold(a, OwnStep(a, st, Head(accs)), Tail(accs))

\* Ownership::needs_lock; "AssertFailed" is the debug assertion failing
needs_lock(o, priority) ==
    IF o.kind \in {"Owned", "CoOwned"} THEN "false"
    ELSE IF ~(o.prio >= priority) THEN "AssertFailed"
    ELSE IF priority < o.prio THEN "true" ELSE "false"

\* Ownership::is_owned
is_owned(o) == o.kind = "Owned"

-----------------------------------------------------------------------------
(* Locations of local resources, Send types (lines 219-252) *)

LocalLocationsOf(a) ==
    LET used == UNION {Range(task_resources_list(a)[i].local) :
                           i \in DOMAIN task_resources_list(a)}
    IN  [l \in used |-> "Owned"]

owned_by_idle == Owned(0)

SharedSendTypes(a, own) ==
    {r.ty : r \in {x \in Range(a.shared_resources) :
                      x.name \in DOMAIN own /\ own[x.name] # owned_by_idle}}

LocalSendTypes(a) ==
    {r.ty : r \in {x \in Range(a.local_resources) :
                      IF a.idle # <<>>
                      THEN x.name \notin Range(RefNames(a.idle[1].local_resources))
                      ELSE TRUE}}

-----------------------------------------------------------------------------
(* Channels (lines 254-278, 355-362) *)

DefaultChannel == [capacity |-> 0, tasks |-> {}]

\* ChannelStep with insert(prio, default) in place of entry(prio).or_default()
ChannelStep_Overwrite(st, spawnee) ==
    [ch |-> MapInsert(st.ch, spawnee.priority,
                [DefaultChannel EXCEPT !.tasks = @ \cup {spawnee.name}]),
     send |-> st.send \cup Range(spawnee.inputs)]

\* the body of the loop over the software tasks (lines 257-265)
ChannelStep(st, spawnee) ==
    LET channel == IF spawnee.priority \in DOMAIN st.ch
                   THEN st.ch[spawnee.priority] ELSE DefaultChannel
    IN  [ch |-> MapInsert(st.ch, spawnee.priority,
                    [channel EXCEPT !.tasks = @ \cup {spawnee.name}]),
         send |-> st.send \cup Range(spawnee.inputs)]

RECURSIVE ChannelFold(_, _)
ChannelFold(st, ts) ==
    IF ts = <<>> THEN st ELSE ChannelFold(ChannelStep(st, Head(ts)), Tail(ts))

\* app.software_tasks[name].args.capacity
CapacityOf(a, name) ==
    LET hit == SelectSeq(a.software_tasks, LAMBDA t : t.name = name)
    IN  hit[1].capacity

\* the mathematical sum of the capacities of the tasks named in ns
RECURSIVE CapacitySum(_, _)
CapacitySum(a, ns) ==
    IF ns = {} THEN 0
    ELSE LET n == CHOOSE x \in ns : TRUE
         IN  CapacityOf(a, n) + CapacitySum(a, ns \ {n})

\* Iterator::sum over u8 overflows when the sum does not fit
Overflows(a, ch) == \E p \in DOMAIN ch : CapacitySum(a, ch[p].tasks) >= U8Modulus

\* the capacities as a build without overflow checks computes them
WithCapacities(a, ch) ==
    [p \in DOMAIN ch |->
        [ch[p] EXCEPT !.capacity = CapacitySum(a, ch[p].tasks) % U8Modulus]]

-----------------------------------------------------------------------------
(* The application models the analysis is run on *)

Priorities == 1..MaxPrio

\* the declared queue capacities tried (u8 values)
Capacities == {4, 6, 250}

SharedOrder == <<"r1", "r2">>
LocalOrder == <<"l1", "l2">>

TypeOf(name) ==
    CASE name = "r1" -> "T1" [] name = "r2" -> "T2"
      [] name = "l1" -> "U1" [] name = "l2" -> "U2"

\* a task's `shared = [..]` argument: the names in S, each with the access
\* kind given by kind
SharedArgs(S, kind) ==
    LET ns == Pick(SharedOrder, S)
    IN  [i \in DOMAIN ns |-> [name |-> ns[i], access |-> kind[ns[i]]]]

\* a task's `local = [..]` argument
LocalArgs(S) ==
    LET ns == Pick(LocalOrder, S)
    IN  [i \in DOMAIN ns |-> [name |-> ns[i]]]

SharedDecls(lf) ==
    [i \in DOMAIN SharedOrder |->
        [name |-> SharedOrder[i], ty |-> TypeOf(SharedOrder[i]),
         lock_free |-> lf[SharedOrder[i]]]]

LocalDecls ==
    [i \in DOMAIN LocalOrder |->
        [name |-> LocalOrder[i], ty |-> TypeOf(LocalOrder[i])]]

IdleTask(S, L, kind) ==
    [shared_resources |-> SharedArgs(S, kind), local_resources |-> LocalArgs(L)]

SoftwareTask(n, S, L, kind, p, c) ==
    [name |-> n, shared_resources |-> SharedArgs(S, kind),
     local_resources |-> LocalArgs(L), priority |-> p, capacity |-> c,
     inputs |-> <<"M_" \o n>>]

HardwareTask(n, S, L, kind, p) ==
    [name |-> n, shared_resources |-> SharedArgs(S, kind),
     local_resources |-> LocalArgs(L), priority |-> p]

\* r1 is taken exclusively (`r1`), r2 by shared reference (`&r2`)
DefaultKind == [r \in Range(SharedOrder) |-> IF r = "r1" THEN "Exclusive" ELSE "Shared"]

\* the access triples of the task list, in the order of the task list
ArgAccesses(refs, p) ==
    [i \in DOMAIN refs |->
        [prio |-> Some(p), name |-> refs[i].name, access |-> refs[i].access]]

TaskAccesses(a) ==
    Concat([i \in DOMAIN a.idle |-> ArgAccesses(a.idle[i].shared_resources, 0)])
    \o Concat([i \in DOMAIN a.software_tasks |->
          ArgAccesses(a.software_tasks[i].shared_resources,
                      a.software_tasks[i].priority)])
    \o Concat([i \in DOMAIN a.hardware_tasks |->
          ArgAccesses(a.hardware_tasks[i].shared_resources,
                      a.hardware_tasks[i].priority)])

\* applications that exercise the two validators: every task may use every
\* shared resource, priorities vary, l1 may be used by s1, s2 or both
ValidatorApps ==
    {[idle |-> i,
      software_tasks |->
          <<SoftwareTask("s1", S1, L1, DefaultKind, p1, 250),
            SoftwareTask("s2", S2, L2, DefaultKind, p2, 6)>>,
      hardware_tasks |-> <<HardwareTask("h1", S3, {}, DefaultKind, p3)>>,
      shared_resources |-> SharedDecls(lf),
      local_resources |-> LocalDecls] :
        i \in {<<>>} \cup {<<IdleTask(S0, {}, DefaultKind)>> : S0 \in {{}, {"r1"}}},
        S1 \in SUBSET Range(SharedOrder), S2 \in SUBSET Range(SharedOrder),
        S3 \in SUBSET Range(SharedOrder),
        L1 \in {{}, {"l1"}}, L2 \in {{}, {"l1"}},
        p1 \in Priorities, p2 \in Priorities, p3 \in Priorities,
        lf \in {[r1 |-> TRUE, r2 |-> b] : b \in BOOLEAN}}

\* the application the free access enumerations are folded for
AccessApp ==
    [idle |-> <<IdleTask({}, {}, DefaultKind)>>,
     software_tasks |-> <<SoftwareTask("s1", {}, {"l1"}, DefaultKind, 1, 4)>>,
     hardware_tasks |-> <<HardwareTask("h1", {}, {}, DefaultKind, 1)>>,
     shared_resources |-> SharedDecls([r1 |-> FALSE, r2 |-> FALSE]),
     local_resources |-> LocalDecls]

\* applications whose tasks differ in the local resources they use
LocalApps ==
    {[idle |-> <<IdleTask({}, L0, DefaultKind)>>,
      software_tasks |-> <<SoftwareTask("s1", {"r1"}, L1, DefaultKind, 1, 4)>>,
      hardware_tasks |-> <<HardwareTask("h1", {"r1"}, L3, DefaultKind, 2)>>,
      shared_resources |-> SharedDecls([r1 |-> FALSE, r2 |-> FALSE]),
      local_resources |-> LocalDecls] :
        L0 \in SUBSET Range(LocalOrder), L1 \in SUBSET Range(LocalOrder),
        L3 \in SUBSET Range(LocalOrder)}

PrioOpts == {None} \cup {Some(p) : p \in 0..MaxPrio}

\* the access kind of a triple without priority is never read (line 190):
\* such triples are drawn with one kind only
AccessTriples ==
    [prio : PrioOpts \ {None}, name : Range(SharedOrder),
     access : {"Exclusive", "Shared"}]
    \cup [prio : {None}, name : Range(SharedOrder), access : {"Exclusive"}]

AccessLists == UNION {[1..n -> AccessTriples] : n \in 0..MaxAccesses}

\* the inputs <<app, accesses>> of the access-driven runs
AccessInputs ==
    {<<AccessApp, l>> : l \in AccessLists}
    \cup {<<a, TaskAccesses(a)>> : a \in LocalApps}

\* applications that exercise the channels: up to three software tasks,
\* any priority and capacity each
SoftwareChoices(n) ==
    {<<>>} \cup {<<SoftwareTask(n, {}, {}, DefaultKind, p, c)>> :
                    p \in Priorities, c \in Capacities}

ChannelApps ==
    {[idle |-> i,
      software_tasks |-> t1 \o t2 \o t3,
      hardware_tasks |-> <<HardwareTask("h1", {"r1"}, L3, DefaultKind, p3)>>,
      shared_resources |-> SharedDecls([r1 |-> FALSE, r2 |-> FALSE]),
      local_resources |-> LocalDecls] :
        i \in {<<>>, <<IdleTask({"r1"}, {"l1"}, DefaultKind)>>},
        t1 \in SoftwareChoices("s1"), t2 \in SoftwareChoices("s2"),
        t3 \in SoftwareChoices("s3"),
        L3 \in {{}, {"l1"}}, p3 \in Priorities}

-----------------------------------------------------------------------------
(* The state machine *)

NotReturned == <<"None">>

Start ==
    /\ pc = "lock_free"
    /\ idx = 1
    /\ lf_hash = EmptyMap
    /\ lf_res_with_error = <<>>
    /\ lr_hash = EmptyMap
    /\ lr_with_error = <<>>
    /\ error = <<>>
    /\ shared_resource_locations = EmptyMap
    /\ ownerships = EmptyMap
    /\ sync_types = {}
    /\ local_resource_locations = EmptyMap
    /\ send_types = {}
    /\ channels = EmptyMap
    /\ result = NotReturned

\* the references of the task list are the access enumeration
Init ==
    /\ app \in ValidatorApps
    /\ accesses = TaskAccesses(app)
    /\ Start

\* any access enumeration over the declared shared resources
InitAccesses ==
    /\ \E inp \in AccessInputs : app = inp[1] /\ accesses = inp[2]
    /\ Start

InitChannels ==
    /\ app \in ChannelApps
    /\ accesses = TaskAccesses(app)
    /\ Start

\* lines 77-136: the lock-free check and its error messages
LockFreeValidator ==
    /\ pc = "lock_free"
    /\ LET st == LfFold([hash |-> lf_hash, errs |-> lf_res_with_error], LfUses(app))
       IN  /\ lf_hash' = st.hash
           /\ lf_res_with_error' = st.errs
           /\ error' = error \o LfSummaries(app, st.errs) \o LfUseErrors(st.errs)
    /\ pc' = "local"
    /\ UNCHANGED <<app, accesses, idx, lr_hash, lr_with_error,
                   shared_resource_locations, ownerships, sync_types,
                   local_resource_locations, send_types, channels, result>>

\* lines 138-169: the local-resource check and its error messages
LocalValidator ==
    /\ pc = "local"
    /\ LET st == LrFold([hash |-> lr_hash, errs |-> lr_with_error], LrUses(app))
       IN  /\ lr_hash' = st.hash
           /\ lr_with_error' = st.errs
           /\ error' = error \o LrUseErrors(st.errs)
    /\ pc' = "collect"
    /\ UNCHANGED <<app, accesses, idx, lf_hash, lf_res_with_error,
                   shared_resource_locations, ownerships, sync_types,
                   local_resource_locations, send_types, channels, result>>

\* lines 171-176: return the combined error, or go on
CollectErrors ==
    /\ pc = "collect"
    /\ IF error # <<>>
       THEN /\ result' = <<"Err", CombinedError(error)>>
            /\ pc' = "done"
       ELSE /\ result' = result
            /\ pc' = "ownership"
    /\ UNCHANGED <<app, accesses, idx, lf_hash, lf_res_with_error, lr_hash,
                   lr_with_error, error, shared_resource_locations, ownerships,
                   sync_types, local_resource_locations, send_types, channels>>

\* lines 182-217: one iteration of the loop over the accesses
FoldAccess ==
    /\ pc = "ownership"
    /\ idx <= Len(accesses)
    /\ LET st == OwnStep(app, [loc |-> shared_resource_locations,
                               own |-> ownerships, sync |-> sync_types],
                         accesses[idx])
       IN  /\ shared_resource_locations' = st.loc
           /\ ownerships' = st.own
           /\ sync_types' = st.sync
    /\ idx' = idx + 1
    /\ UNCHANGED <<app, accesses, pc, lf_hash, lf_res_with_error, lr_hash,
                   lr_with_error, error, local_resource_locations, send_types,
                   channels, result>>

\* lines 219-252: the used local resources; the Send types of the resources
LocationsAndSend ==
    /\ pc = "ownership"
    /\ idx > Len(accesses)
    /\ local_resource_locations' = LocalLocationsOf(app)
    /\ send_types' = send_types \cup SharedSendTypes(app, ownerships)
                                \cup LocalSendTypes(app)
    /\ pc' = "channels"
    /\ UNCHANGED <<app, accesses, idx, lf_hash, lf_res_with_error, lr_hash,
                   lr_with_error, error, shared_resource_locations, ownerships,
                   sync_types, channels, result>>

\* lines 254-269: one channel per priority of a software task; a build with
\* debug assertions panics if a channel has no task
BuildChannels ==
    /\ pc = "channels"
    /\ LET st == ChannelFold([ch |-> channels, send |-> send_types],
                             app.software_tasks)
       IN  /\ channels' = st.ch
           /\ send_types' = st.send
           /\ \E debug \in BOOLEAN :
                IF debug /\ \E p \in DOMAIN st.ch : st.ch[p].tasks = {}
                THEN result' = <<"Panic", "empty channel">> /\ pc' = "done"
                ELSE result' = result /\ pc' = "capacity"
    /\ UNCHANGED <<app, accesses, idx, lf_hash, lf_res_with_error, lr_hash,
                   lr_with_error, error, shared_resource_locations, ownerships,
                   sync_types, local_resource_locations>>

\* lines 271-288: the capacities, then Ok(Analysis).  The sum of u8 panics
\* on overflow in a build with overflow checks and wraps in one without
ComputeCapacities ==
    /\ pc = "capacity"
    /\ \E overflow_checks \in BOOLEAN :
         IF overflow_checks /\ Overflows(app, channels)
         THEN /\ result' = <<"Panic", "attempt to add with overflow">>
              /\ channels' = channels
         ELSE /\ result' = <<"Ok">>
              /\ channels' = WithCapacities(app, channels)
    /\ pc' = "done"
    /\ UNCHANGED <<app, accesses, idx, lf_hash, lf_res_with_error, lr_hash,
                   lr_with_error, error, shared_resource_locations, ownerships,
                   sync_types, local_resource_locations, send_types>>

Next ==
    \/ LockFreeValidator
    \/ LocalValidator
    \/ CollectErrors
    \/ FoldAccess
    \/ LocationsAndSend
    \/ BuildChannels
    \/ ComputeCapacities

Spec == Init /\ [][Next]_vars

SpecAccesses == InitAccesses /\ [][Next]_vars

SpecChannels == InitChannels /\ [][Next]_vars

-----------------------------------------------------------------------------
(* What the application model says, read off the declarations *)

\* every task of the application with the arguments it was declared with
DeclaredTasks ==
    {[name |-> "idle", kind |-> "idle", priority |-> 0,
      shared |-> Range(RefNames(app.idle[i].shared_resources)),
      local |-> Range(RefNames(app.idle[i].local_resources))] : i \in DOMAIN app.idle}
    \cup
    {[name |-> t.name, kind |-> "software", priority |-> t.priority,
      shared |-> Range(RefNames(t.shared_resources)),
      local |-> Range(RefNames(t.local_resources))] : t \in Range(app.software_tasks)}
    \cup
    {[name |-> t.name, kind |-> "hardware", priority |-> t.priority,
      shared |-> Range(RefNames(t.shared_resources)),
      local |-> Range(RefNames(t.local_resources))] : t \in Range(app.hardware_tasks)}

SharedNames == {r.name : r \in Range(app.shared_resources)}
LocalNames == {r.name : r \in Range(app.local_resources)}
LockFreeNames == {r.name : r \in {x \in Range(app.shared_resources) : x.lock_free}}

UsersOf(r) == {t \in DeclaredTasks : r \in t.shared}
LocalUsersOf(l) == {t \in DeclaredTasks : l \in t.local}
PrioritiesOf(r) == {t.priority : t \in UsersOf(r)}

LockFreeViolation(r) == r \in LockFreeNames /\ Cardinality(PrioritiesOf(r)) >= 2
LocalCollision(l) == l \in LocalNames /\ Cardinality(LocalUsersOf(l)) >= 2

HasViolation ==
    \/ \E r \in SharedNames : LockFreeViolation(r)
    \/ \E l \in LocalNames : LocalCollision(l)

Returned == pc = "done"
Succeeded == pc = "done" /\ result = <<"Ok">>
Failed == pc = "done" /\ result[1] = "Err"

\* the accesses the ownership loop has gone through so far
Folded == SubSeq(accesses, 1, idx - 1)

\* the priorities of the prioritized accesses to r among accs, in order
PrioritiesIn(accs, r) ==
    LET hit == SelectSeq(accs, LAMBDA x : x.name = r /\ x.prio # None)
    IN  [i \in DOMAIN hit |-> hit[i].prio[1]]

MaxOf(S) == CHOOSE m \in S : \A x \in S : m >= x

\* the ownership the data model prescribes for a list of access priorities
Classify(ps) ==
    IF Cardinality(Range(ps)) >= 2 THEN Contended(MaxOf(Range(ps)))
    ELSE IF Len(ps) >= 2 THEN CoOwned(ps[1])
    ELSE Owned(ps[1])

-----------------------------------------------------------------------------
(* C1 *)

\* C1: after any sequence of accesses has been folded, a resource has an
\* ownership entry iff it has a prioritized access, and the entry is
\* Owned{P} iff there is exactly one prioritized access (at P), CoOwned{P}
\* iff there are two or more, all at P, Contended{max} iff the accesses
\* span two or more priorities.  Accesses without priority change nothing.
C1_OwnershipClassification ==
    \A r \in SharedNames :
        LET ps == PrioritiesIn(Folded, r)
        IN  /\ r \in DOMAIN ownerships <=> ps # <<>>
            /\ r \in DOMAIN ownerships =>
                 /\ ownerships[r] = Classify(ps)
                 /\ ownerships[r].kind = "Owned" <=> Len(ps) = 1
                 /\ ownerships[r].kind = "CoOwned" <=>
                        Len(ps) >= 2 /\ Cardinality(Range(ps)) = 1
                 /\ ownerships[r].kind = "Contended" <=>
                        Cardinality(Range(ps)) >= 2

\* three accesses folded: r1 at two priorities is Contended with the higher
\* one as ceiling, r2 seen only without priority has no entry
C1_Witness ==
    /\ Succeeded
    /\ Len(accesses) = 3
    /\ \E i \in DOMAIN accesses : accesses[i].name = "r2" /\ accesses[i].prio = None
    /\ "r2" \notin DOMAIN ownerships
    /\ "r1" \in DOMAIN ownerships
    /\ ownerships["r1"] = Contended(2)
    /\ PrioritiesIn(accesses, "r1") = <<2, 1>>

-----------------------------------------------------------------------------
(* C2 *)

NoAnalysis ==
    /\ shared_resource_locations = EmptyMap
    /\ ownerships = EmptyMap
    /\ sync_types = {}
    /\ local_resource_locations = EmptyMap
    /\ send_types = {}
    /\ channels = EmptyMap
    /\ idx = 1

-----------------------------------------------------------------------------
(* C3 *)

\* the access enumeration is the list of the tasks' references
AccessesAreTaskReferences ==
    /\ accesses = TaskAccesses(app)
    /\ \A r \in SharedNames :
         {a.prio : a \in {x \in Range(accesses) : x.name = r}}
             = {Some(q) : q \in PrioritiesOf(r)}

\* C3: when app() succeeds on the references of the task list, every
\* lock_free resource that is accessed is Owned or CoOwned, and needs_lock
\* is false at the priority of every task that uses it.
C3_LockFreeNeverLocks ==
    Succeeded /\ AccessesAreTaskReferences =>
        \A r \in LockFreeNames :
            UsersOf(r) # {} =>
                /\ r \in DOMAIN ownerships
                /\ ownerships[r].kind \in {"Owned", "CoOwned"}
                /\ \A t \in UsersOf(r) : needs_lock(ownerships[r], t.priority) = "false"

\* success with a lock_free resource co-owned by several tasks while another
\* resource, not lock_free, is contended and does need a lock
C3_Witness ==
    /\ Succeeded
    /\ AccessesAreTaskReferences
    /\ \E r \in LockFreeNames :
         /\ Cardinality(UsersOf(r)) >= 2
         /\ ownerships[r].kind = "CoOwned"
    /\ \E r \in SharedNames \ LockFreeNames :
         /\ r \in DOMAIN ownerships
         /\ ownerships[r].kind = "Contended"
         /\ \E t \in UsersOf(r) : needs_lock(ownerships[r], t.priority) = "true"

-----------------------------------------------------------------------------
(* C4 *)

CeilingCoversFolded ==
    \A r \in SharedNames :
        \A i \in DOMAIN PrioritiesIn(Folded, r) :
            /\ r \in DOMAIN ownerships
            /\ ownerships[r].prio >= PrioritiesIn(Folded, r)[i]

CeilingNeverDecreases ==
    \A r \in DOMAIN ownerships :
        /\ r \in DOMAIN ownerships'
        /\ ownerships'[r].prio >= ownerships[r].prio

AssertionHolds ==
    Succeeded =>
        \A i \in DOMAIN accesses :
            accesses[i].prio # None =>
                needs_lock(ownerships[accesses[i].name], accesses[i].prio[1])
                    \in {"true", "false"}

\* C4: at every step of the fold the priority or ceiling of a resource's
\* ownership is at least every access priority folded so far for it, it
\* never decreases from one step to the next, and so the assertion in
\* needs_lock holds for the priority of every access of the resource.
C4_CeilingMonotone ==
    /\ [](CeilingCoversFolded /\ AssertionHolds)
    /\ [][CeilingNeverDecreases]_vars

\* a ceiling that was raised twice: r1 accessed at 0, then 1, then 2
C4_Witness ==
    /\ Succeeded
    /\ PrioritiesIn(accesses, "r1") = <<0, 1, 2>>
    /\ ownerships["r1"] = Contended(2)
    /\ needs_lock(ownerships["r1"], 0) = "true"
    /\ needs_lock(ownerships["r1"], 2) = "false"

-----------------------------------------------------------------------------
(* C5 *)

\* C5: when a lock_free resource is used at two or more priorities, the
\* validator flags the reference to it in every task that uses it.
C5_EveryUseFlagged ==
    pc # "lock_free" =>
        \A r \in SharedNames :
            LockFreeViolation(r) =>
                \A t \in UsersOf(r) :
                    [task |-> t.name, res |-> r] \in Range(lf_res_with_error)

-----------------------------------------------------------------------------
(* C6 *)

Count(seq, x) == Cardinality({i \in DOMAIN seq : seq[i] = x})

SummaryOf(r) == [span |-> <<"decl", r>>, msg |-> SummaryMsg]
UseErrorOf(site) == [span |-> <<"use", site.task, site.res>>, msg |-> UseMsg]

\* C6: the lock-free diagnostics of the returned error are one summary per
\* violating resource and one diagnostic per flagged use, each once.
C6_ExactDiagnostics ==
    Failed =>
        LET diag == result[2]
            flagged == Range(lf_res_with_error)
        IN  /\ \A r \in LockFreeNames :
                 Count(diag, SummaryOf(r)) = IF LockFreeViolation(r) THEN 1 ELSE 0
            /\ \A site \in flagged : Count(diag, UseErrorOf(site)) = 1
            /\ \A i \in DOMAIN diag :
                 diag[i].msg = UseMsg =>
                     \E site \in flagged : diag[i] = UseErrorOf(site)
            /\ \A i, j \in DOMAIN diag :
                 diag[i].msg # LocalMsg /\ diag[i] = diag[j] => i = j

-----------------------------------------------------------------------------
(* C7 *)

SoftwareAt(p) == {t \in DeclaredTasks : t.kind = "software" /\ t.priority = p}

DeclaredCapacity(n) ==
    (CHOOSE t \in Range(app.software_tasks) : t.name = n).capacity

RECURSIVE SumOver(_)
SumOver(ts) ==
    IF ts = {} THEN 0
    ELSE LET t == CHOOSE x \in ts : TRUE
         IN  DeclaredCapacity(t.name) + SumOver(ts \ {t})

\* C7: in every successful analysis the capacity of the channel at
\* priority p is the sum of the capacities of the software tasks at p.
C7_CapacityIsSum ==
    Succeeded =>
        \A p \in DOMAIN channels : channels[p].capacity = SumOver(SoftwareAt(p))

-----------------------------------------------------------------------------
(* C8 *)

\* C8: in every successful analysis there is a channel at p iff a software
\* task has priority p, its tasks are exactly the software tasks at p, no
\* channel is empty (the assertion never fails), and neither idle nor a
\* hardware task is in a channel.
C8_ChannelsAreSoftwareGroups ==
    /\ result # <<"Panic", "empty channel">>
    /\ Succeeded =>
         /\ DOMAIN channels = {t.priority : t \in {x \in DeclaredTasks : x.kind = "software"}}
         /\ \A p \in DOMAIN channels :
              /\ channels[p].tasks = {t.name : t \in SoftwareAt(p)}
              /\ channels[p].tasks # {}
              /\ \A t \in DeclaredTasks :
                   t.kind # "software" => t.name \notin channels[p].tasks

\* two software tasks share one channel, a third has its own, and the
\* hardware task's priority has a channel only because of a software task
C8_Witness ==
    /\ Succeeded
    /\ Len(app.idle) = 1
    /\ Len(app.software_tasks) = 3
    /\ DOMAIN channels = {1, 2}
    /\ channels[1].tasks = {"s1", "s3"}
    /\ channels[2].tasks = {"s2"}
    /\ app.hardware_tasks[1].priority = 2

-----------------------------------------------------------------------------
(* C9 *)

\* C9: in every successful analysis a shared resource is in the shared
\* location map iff the enumeration has an access triple for it, with or
\* without priority; a local resource is in the local location map iff a
\* task uses it; a declared resource that is never accessed is in neither.
C9_LiveResources ==
    Succeeded =>
        /\ \A r \in SharedNames :
             r \in DOMAIN shared_resource_locations
                 <=> \E i \in DOMAIN accesses : accesses[i].name = r
        /\ \A l \in LocalNames :
             l \in DOMAIN local_resource_locations <=> LocalUsersOf(l) # {}
        /\ DOMAIN shared_resource_locations \subseteq SharedNames
        /\ DOMAIN local_resource_locations \subseteq LocalNames
        /\ DOMAIN shared_resource_locations \cap DOMAIN local_resource_locations = {}

\* r2 is live through accesses without priority only and has no ownership,
\* r1 is dead; l1 is used by a task, l2 is dead
C9_Witness ==
    /\ Succeeded
    /\ accesses # <<>>
    /\ \A i \in DOMAIN accesses : accesses[i].name = "r2" /\ accesses[i].prio = None
    /\ "r2" \in DOMAIN shared_resource_locations
    /\ "r2" \notin DOMAIN ownerships
    /\ "r1" \notin DOMAIN shared_resource_locations
    /\ "l1" \in DOMAIN local_resource_locations
    /\ "l2" \notin DOMAIN local_resource_locations

-----------------------------------------------------------------------------
(* C10 *)

\* the enumerations that yield the same accesses in another order
Reorderings(accs) ==
    {[i \in DOMAIN accs |-> accs[q[i]]] :
        q \in {f \in [DOMAIN accs -> DOMAIN accs] :
                  \A i, j \in DOMAIN accs : f[i] = f[j] => i = j}}

SyncTypesOf(accs) ==
    OwnFold(app, [loc |-> EmptyMap, own |-> EmptyMap, sync |-> {}], accs).sync

\* C10: in every successful analysis the type of a resource is in the Sync
\* set whenever the resource ends up Contended and one of its prioritized
\* accesses is shared, and every reordering of the accesses gives the same
\* Sync set.
C10_SyncOrderIndependent ==
    Succeeded =>
        /\ \A r \in DOMAIN ownerships :
             /\ ownerships[r].kind = "Contended"
             /\ \E i \in DOMAIN accesses :
                  /\ accesses[i].name = r
                  /\ accesses[i].prio # None
                  /\ is_shared(accesses[i].access)
             => SharedRes(app, r).ty \in sync_types
        /\ \A accs \in Reorderings(accesses) : SyncTypesOf(accs) = sync_types

====
